---- MODULE Spec2Model ----
(***************************************************************************)
(* A model of the FPL season optimiser's rule engine: the team validator   *)
(* and formation checker (src/backtester/fpl_validator.py), the gameweek   *)
(* scorer (src/backtester/fpl_point_calculator.py), the transfer-state     *)
(* update of both optimiser chains (src/optimiser/milp, cp_minizinc) and   *)
(* the post-hoc role assigner (src/optimiser/utils.py).                    *)
(***************************************************************************)
EXTENDS Integers, Sequences, FiniteSets, TLC

VARIABLES
    pc,           \* position of the run: "input", "validated", "rejected", "scored", ...
    squad_ids,    \* list of player ids (squad)
    starter_ids,  \* list of player ids (starting XI)
    bench_ids,    \* dict bench position -> player id
    captain_id,
    vice_id,
    minutes,      \* gw_df['minutes'], by player id
    points,       \* gw_df['points'], by player id
    players_df,   \* the 'position' column of the frame given to validate_formation
    result,       \* (is_valid, error_message) of the validator last applied
    total_points, \* calculate_gameweek_points: first component of the result
    active_players, \* calculate_gameweek_points: ids of the final active rows
    details,      \* calculate_gameweek_points: the breakdown dict
    raised,       \* the exception the operation last applied raised, "" if none
    chain,        \* optimiser chain: "MILP" or "CP"
    gw,           \* gameweek the season runner has reached
    y0,           \* ownership vector, by player id
    p0,           \* purchase prices, by player id
    free_transfers, \* f, the free transfers available
    B_bank,       \* bank balance, tenths of a million
    cost,         \* current costs of the gameweek, by player id
    t_star,       \* players the solver's decision buys
    s_star,       \* players the solver's decision sells
    solution,     \* what the state update returns
    results,      \* run_full_season: the stored solutions, by gameweek
    df_ids,       \* players_df['player_id'].tolist(): the ids in row order
    x_star,       \* starters of the decision, 0/1 by player id
    y2_star,      \* squad of the decision, 0/1 by player id
    c_star,       \* captain of the decision, 0/1 by player id
    expected_points, \* players_df['expected_points'], by player id
    post_hoc,     \* what the role assigner returns: v, b1, b2, b3, b4
    gw_num,       \* run_backtest: the gameweek the loop has reached
    cumulative_points, \* run_backtest: points of the gameweeks scored so far
    total_transfers,   \* run_backtest: transfers in, counted over the gameweeks
    previous_squad,    \* run_backtest: squad of the last gameweek reported
    run_log,      \* the calls run_backtest has made, in order
    summary       \* what run_backtest returns

backtest_vars == <<squad_ids, starter_ids, bench_ids, captain_id, vice_id, minutes,
                   points, players_df, result, total_points, active_players, details>>

transfer_vars == <<chain, gw, y0, p0, free_transfers, B_bank, cost, t_star, s_star,
                   solution, results>>

role_vars == <<df_ids, x_star, y2_star, c_star, expected_points, post_hoc>>

run_vars == <<gw_num, cumulative_points, total_transfers, previous_squad, run_log,
              summary>>

vars == <<pc, raised, backtest_vars, transfer_vars, role_vars, run_vars>>

\* No solution has been returned.
NoSolution == <<>>

\* The season loop's variables where run_backtest is not running.
RunIdle ==
    /\ gw_num = 0
    /\ cumulative_points = 0
    /\ total_transfers = 0
    /\ previous_squad = <<>>
    /\ run_log = <<>>
    /\ summary = NoSolution

\* The role assigner's variables of a run that does not call it.
RolesIdle ==
    /\ df_ids = <<>>
    /\ x_star = <<>>
    /\ y2_star = <<>>
    /\ c_star = <<>>
    /\ expected_points = <<>>
    /\ post_hoc = NoSolution

\* The optimiser variables of a run that only exercises the backtester.
TransferIdle ==
    /\ chain = ""
    /\ gw = 0
    /\ y0 = <<>>
    /\ p0 = <<>>
    /\ free_transfers = 0
    /\ B_bank = 0
    /\ cost = <<>>
    /\ t_star = {}
    /\ s_star = {}
    /\ solution = NoSolution
    /\ results = <<>>

-----------------------------------------------------------------------------
(* Bounds of the model *)

\* Number of rows of the gameweek table gw_df (player ids 1..NumPlayers).
NumPlayers == 17

\* Largest number of rows of one position in a frame given to validate_formation.
MaxPerPos == 6

\* Number of points columns the scorer is tried on.
NumProfiles == 2

\* Largest number of starters with 0 minutes (besides the gameweek in which no
\* starter played).
MaxAbsent == 2

-----------------------------------------------------------------------------
(* Program constants *)

SquadSize == 15
XISize == 11
BenchSize == 4
ClubLimit == 3
MinutesPlayed == 90

PosOrder == <<"GK", "DEF", "MID", "FWD">>
Positions == {"GK", "DEF", "MID", "FWD"}
expected == ("GK" :> 2) @@ ("DEF" :> 5) @@ ("MID" :> 5) @@ ("FWD" :> 3)

None == "None"

\* No breakdown yet.
NoDetails == <<>>

-----------------------------------------------------------------------------
(* The gameweek table gw_df: unique player ids, a position and a club each. *)

Table == 1..NumPlayers
\* Ids that may appear in a decision: one more than the table holds (an absent id).
IdPool == 1..(NumPlayers + 1)

Position(p) ==
    IF p <= 2 THEN "GK"
    ELSE IF p <= 7 THEN "DEF"
    ELSE IF p <= 12 THEN "MID"
    ELSE IF p <= 15 THEN "FWD"
    ELSE PosOrder[((p - 16) % 4) + 1]

Team(p) ==
    IF p <= 15 THEN ((p - 1) % 5) + 1
    ELSE IF p % 2 = 1 THEN 1 ELSE 6

Range(s) == {s[i] : i \in DOMAIN s}

RECURSIVE SumSeq(_, _)
\* Sum of f[s[i]] over the entries of the list s (with multiplicity).
SumSeq(f, s) == IF s = <<>> THEN 0 ELSE f[Head(s)] + SumSeq(f, Tail(s))

\* gw_df[gw_df['player_id'].isin(ids)]: the table rows whose id occurs in ids.
IsIn(ids) == {p \in Table : p \in Range(ids)}

\* df['position'].value_counts().get(pos, 0) for a set of table rows.
PositionCount(rows, pos) == Cardinality({p \in rows : Position(p) = pos})

\* df['team'].value_counts() for a set of table rows, as club -> count.
TeamCount(rows, t) == Cardinality({p \in rows : Team(p) = t})
Teams(rows) == {Team(p) : p \in rows}

Ok == [valid |-> TRUE, kind |-> "", args |-> <<>>]
Fail(kind, args) == [valid |-> FALSE, kind |-> kind, args |-> args]

PosIdx(pos) == CHOOSE i \in 1..4 : PosOrder[i] = pos

-----------------------------------------------------------------------------
(* fpl_validator.validate_team *)

\* Rule 1: len(squad_ids) != 15.
check_squad_size(squad) ==
    IF Len(squad) # SquadSize THEN Fail("squad_size", <<Len(squad)>>) ELSE Ok

\* First position, in the iteration order of `expected`, whose count is off.
first_wrong_position(rows) ==
    LET wrong == {i \in 1..4 : PositionCount(rows, PosOrder[i]) # expected[PosOrder[i]]}
    IN  IF wrong = {} THEN 0 ELSE CHOOSE i \in wrong : \A j \in wrong : i <= j

\* Rule 2: squad composition 2-5-5-3, over the table rows found for the squad.
check_squad_composition(squad) ==
    LET squad_df == IsIn(squad)
        i == first_wrong_position(squad_df)
    IN  IF i # 0
        THEN Fail("squad_composition",
                  <<i, expected[PosOrder[i]], PositionCount(squad_df, PosOrder[i])>>)
        ELSE Ok

RECURSIVE club_violations(_, _)
\* The offending clubs with their counts (club, count, club, count, ...); the
\* message lists them in value_counts order, here in club order.
club_violations(rows, ts) ==
    IF ts = {} THEN <<>>
    ELSE LET t == CHOOSE x \in ts : \A y \in ts : x <= y
         IN  <<t, TeamCount(rows, t)>> \o club_violations(rows, ts \ {t})

\* A club limit off by one (>= 5 instead of > 3).
over_limit_lax(rows) == {t \in Teams(rows) : TeamCount(rows, t) > ClubLimit + 1}

\* team_counts[team_counts > 3]
over_limit(rows) == {t \in Teams(rows) : TeamCount(rows, t) > ClubLimit}

\* Rule 3: at most 3 squad players per club.
check_club_limit(squad) ==
    LET squad_df == IsIn(squad)
    IN  IF Cardinality(over_limit(squad_df)) > 0
        THEN Fail("club_limit", club_violations(squad_df, over_limit(squad_df)))
        ELSE Ok

\* Rule 4: len(starter_ids) != 11.
check_xi_size(starters) ==
    IF Len(starters) # XISize THEN Fail("xi_size", <<Len(starters)>>) ELSE Ok

\* Rule 5: the formation of the table rows found for the starters.
check_xi_formation(starters) ==
    LET starters_df == IsIn(starters)
        gk == PositionCount(starters_df, "GK")
        defn == PositionCount(starters_df, "DEF")
        mid == PositionCount(starters_df, "MID")
        fwd == PositionCount(starters_df, "FWD")
    IN  IF gk # 1 THEN Fail("xi_gk", <<gk>>)
        ELSE IF defn < 3 \/ defn > 5 THEN Fail("xi_def", <<defn>>)
        ELSE IF mid < 2 \/ mid > 5 THEN Fail("xi_mid", <<mid>>)
        ELSE IF fwd < 1 \/ fwd > 3 THEN Fail("xi_fwd", <<fwd>>)
        ELSE Ok

\* Rule 5 on the position counts of the starters frame.
xi_formation_rule(gk, defn, mid, fwd) ==
    IF gk # 1 THEN Fail("xi_gk", <<gk>>)
    ELSE IF defn < 3 \/ defn > 5 THEN Fail("xi_def", <<defn>>)
    ELSE IF mid < 2 \/ mid > 5 THEN Fail("xi_mid", <<mid>>)
    ELSE IF fwd < 1 \/ fwd > 3 THEN Fail("xi_fwd", <<fwd>>)
    ELSE Ok

\* Rule 6: the bench dict has 4 entries and its keys are 1, 2, 3, 4.
check_bench_keys(bench) ==
    IF Cardinality(DOMAIN bench) # BenchSize
    THEN Fail("bench_size", <<Cardinality(DOMAIN bench)>>)
    ELSE IF DOMAIN bench # {1, 2, 3, 4} THEN Fail("bench_keys", <<>>)
    ELSE Ok

\* Rule 7: bench position 1 is found in the table and is a GK.
check_bench_gk(bench) ==
    LET pos1_id == bench[1]
    IN  IF pos1_id \notin Table THEN Fail("bench1_not_found", <<pos1_id>>)
        ELSE IF Position(pos1_id) # "GK"
        THEN Fail("bench1_not_gk", <<PosIdx(Position(pos1_id))>>)
        ELSE Ok

\* First of the slots 2, 3, 4 whose player is missing from the table or is a GK.
first_bad_outfield(bench) ==
    LET bad == {k \in {2, 3, 4} : bench[k] \notin Table \/ Position(bench[k]) = "GK"}
    IN  IF bad = {} THEN 0 ELSE CHOOSE k \in bad : \A j \in bad : k <= j

\* Rule 8: bench positions 2-4 are found in the table and are outfield players.
check_bench_outfield(bench) ==
    LET k == first_bad_outfield(bench)
    IN  IF k = 0 THEN Ok
        ELSE IF bench[k] \notin Table THEN Fail("bench_not_found", <<k, bench[k]>>)
        ELSE Fail("bench_gk", <<k>>)

\* The captaincy checks with the two membership tests in the other order.
check_captaincy_vice_first(starters, captain, vice) ==
    IF captain = vice THEN Fail("captain_is_vice", <<>>)
    ELSE IF vice \notin Range(starters) THEN Fail("vice_not_starter", <<vice>>)
    ELSE IF captain \notin Range(starters) THEN Fail("captain_not_starter", <<captain>>)
    ELSE Ok

\* Rules 9-11: captaincy.
check_captaincy(starters, captain, vice) ==
    IF captain = vice THEN Fail("captain_is_vice", <<>>)
    ELSE IF captain \notin Range(starters) THEN Fail("captain_not_starter", <<captain>>)
    ELSE IF vice \notin Range(starters) THEN Fail("vice_not_starter", <<vice>>)
    ELSE Ok

\* validate_team: the checks in the order of the code, first error returned.
validate_team(squad, starters, bench, captain, vice) ==
    IF ~check_squad_size(squad).valid THEN check_squad_size(squad)
    ELSE IF ~check_squad_composition(squad).valid THEN check_squad_composition(squad)
    ELSE IF ~check_club_limit(squad).valid THEN check_club_limit(squad)
    ELSE IF ~check_xi_size(starters).valid THEN check_xi_size(starters)
    ELSE IF ~check_xi_formation(starters).valid THEN check_xi_formation(starters)
    ELSE IF ~check_bench_keys(bench).valid THEN check_bench_keys(bench)
    ELSE IF ~check_bench_gk(bench).valid THEN check_bench_gk(bench)
    ELSE IF ~check_bench_outfield(bench).valid THEN check_bench_outfield(bench)
    ELSE check_captaincy(starters, captain, vice)

-----------------------------------------------------------------------------
(* fpl_validator.validate_formation, on the 'position' column of players_df *)

\* position_counts.get(pos, 0)
ColumnCount(col, pos) == Cardinality({i \in DOMAIN col : col[i] = pos})

\* The FWD bound is not checked.
validate_formation_no_fwd(col) ==
    LET gk == ColumnCount(col, "GK")
        defn == ColumnCount(col, "DEF")
        mid == ColumnCount(col, "MID")
        total == gk + defn + mid + ColumnCount(col, "FWD")
    IN  IF gk # 1 THEN Fail("formation_gk", <<gk>>)
        ELSE IF defn < 3 \/ defn > 5 THEN Fail("formation_def", <<defn>>)
        ELSE IF total >= 4 /\ (mid < 2 \/ mid > 5) THEN Fail("formation_mid", <<mid>>)
        ELSE Ok

\* The DEF bound gated by size like the MID bound.
validate_formation_def_gated(col) ==
    LET gk == ColumnCount(col, "GK")
        defn == ColumnCount(col, "DEF")
        mid == ColumnCount(col, "MID")
        fwd == ColumnCount(col, "FWD")
        total == gk + defn + mid + fwd
    IN  IF gk # 1 THEN Fail("formation_gk", <<gk>>)
        ELSE IF total >= 4 /\ (defn < 3 \/ defn > 5) THEN Fail("formation_def", <<defn>>)
        ELSE IF total >= 4 /\ (mid < 2 \/ mid > 5) THEN Fail("formation_mid", <<mid>>)
        ELSE IF total >= 5 /\ (fwd < 1 \/ fwd > 3) THEN Fail("formation_fwd", <<fwd>>)
        ELSE Ok

\* The MID bound checked before the DEF bound.
validate_formation_mid_first(col) ==
    LET gk == ColumnCount(col, "GK")
        defn == ColumnCount(col, "DEF")
        mid == ColumnCount(col, "MID")
        fwd == ColumnCount(col, "FWD")
        total == gk + defn + mid + fwd
    IN  IF gk # 1 THEN Fail("formation_gk", <<gk>>)
        ELSE IF total >= 4 /\ (mid < 2 \/ mid > 5) THEN Fail("formation_mid", <<mid>>)
        ELSE IF defn < 3 \/ defn > 5 THEN Fail("formation_def", <<defn>>)
        ELSE IF total >= 5 /\ (fwd < 1 \/ fwd > 3) THEN Fail("formation_fwd", <<fwd>>)
        ELSE Ok

validate_formation(col) ==
    LET gk == ColumnCount(col, "GK")
        defn == ColumnCount(col, "DEF")
        mid == ColumnCount(col, "MID")
        fwd == ColumnCount(col, "FWD")
        total == gk + defn + mid + fwd
    IN  IF gk # 1 THEN Fail("formation_gk", <<gk>>)
        ELSE IF defn < 3 \/ defn > 5 THEN Fail("formation_def", <<defn>>)
        ELSE IF total >= 4 /\ (mid < 2 \/ mid > 5) THEN Fail("formation_mid", <<mid>>)
        ELSE IF total >= 5 /\ (fwd < 1 \/ fwd > 3) THEN Fail("formation_fwd", <<fwd>>)
        ELSE Ok

-----------------------------------------------------------------------------
(* fpl_point_calculator.calculate_gameweek_points *)

RECURSIVE TableOrder(_)
\* The rows of a frame filtered from gw_df, in the order of the table.
TableOrder(rows) ==
    IF rows = {} THEN <<>>
    ELSE LET p == CHOOSE x \in rows : \A y \in rows : x <= y
         IN  <<p>> \o TableOrder(rows \ {p})

\* The 'position' column of a frame given by the ids of its rows.
PositionColumn(ids) == [i \in DOMAIN ids |-> Position(ids[i])]

\* A starter with minutes >= 0 kept (instead of minutes > 0).
played_lax(mins, p) == mins[p] >= 0

\* starters_df['minutes'] > 0
played(mins, p) == mins[p] > 0

\* Step 1: the starters found in the table that played.
active_starters(mins, starters) ==
    TableOrder({p \in IsIn(starters) : played(mins, p)})

Substitution(pts, player_id, bench_pos) ==
    [player_id |-> player_id, position |-> Position(player_id),
     bench_pos |-> bench_pos, points |-> pts[player_id]]

\* The loop never stops early.
lineup_never_full(active) == FALSE

\* if len(active_players) >= 11: break
lineup_full(active) == Len(active) >= XISize

\* A bench player is added whatever the formation of the test lineup.
formation_unchecked(test_lineup) == TRUE

\* is_valid of validate_formation(test_lineup)
formation_valid(test_lineup) == validate_formation(PositionColumn(test_lineup)).valid

\* The result of the loop when it ends at a bench position, nothing examined after it.
LoopEnd(active, subs, exc) ==
    [active |-> active, substitutions |-> subs, raised |-> exc, examined |-> <<>>]

RECURSIVE process_bench(_, _, _, _, _, _)
\* Step 2: the loop over bench positions 1, 2, 3, 4, from bench_pos on; 'examined'
\* lists the bench positions whose player the loop looked up, in the order of
\* the iterations.
process_bench(bench_pos, active, subs, mins, pts, bench) ==
    IF bench_pos > BenchSize \/ lineup_full(active)
    THEN LoopEnd(active, subs, "")
    ELSE IF bench_pos \notin DOMAIN bench
    THEN [LoopEnd(active, subs, "KeyError") EXCEPT !.examined = <<bench_pos>>]
    ELSE IF bench[bench_pos] \notin Table
    THEN [LoopEnd(active, subs, "IndexError") EXCEPT !.examined = <<bench_pos>>]
    ELSE LET player_id == bench[bench_pos]
             test_lineup == Append(active, player_id)
             rest == IF mins[player_id] = 0
                     THEN process_bench(bench_pos + 1, active, subs, mins, pts, bench)
                     ELSE IF formation_valid(test_lineup)
                     THEN process_bench(bench_pos + 1, test_lineup,
                                        Append(subs, Substitution(pts, player_id, bench_pos)),
                                        mins, pts, bench)
                     ELSE process_bench(bench_pos + 1, active, subs, mins, pts, bench)
         IN  [rest EXCEPT !.examined = <<bench_pos>> \o @]

\* The vice-captain's bonus doubled.
armband_vice_doubled(active, pts, captain, vice) ==
    IF captain \in Range(active)
    THEN [captain_bonus |-> pts[captain], captain_used |-> "captain"]
    ELSE IF vice \in Range(active)
    THEN [captain_bonus |-> 2 * pts[vice], captain_used |-> "vice"]
    ELSE [captain_bonus |-> 0, captain_used |-> None]

\* Step 4: captain doubling, with the vice-captain as fallback.
armband(active, pts, captain, vice) ==
    IF captain \in Range(active)
    THEN [captain_bonus |-> pts[captain], captain_used |-> "captain"]
    ELSE IF vice \in Range(active)
    THEN [captain_bonus |-> pts[vice], captain_used |-> "vice"]
    ELSE [captain_bonus |-> 0, captain_used |-> None]

\* The result when no starter played.
no_one_played ==
    [total_points |-> 0,
     active_players |-> <<>>,
     details |-> [substitutions |-> <<>>, captain_played |-> FALSE,
                  vice_played |-> FALSE, captain_points |-> 0],
     raised |-> ""]

calculate_gameweek_points(mins, pts, starters, bench, captain, vice) ==
    LET active0 == active_starters(mins, starters)
    IN  IF Len(active0) = 0 THEN no_one_played
        ELSE LET loop == process_bench(1, active0, <<>>, mins, pts, bench)
                 active == loop.active
                 base_points == SumSeq(pts, active)
                 band == armband(active, pts, captain, vice)
             IN  IF loop.raised # ""
                 THEN [total_points |-> 0, active_players |-> <<>>,
                       details |-> NoDetails, raised |-> loop.raised]
                 ELSE [total_points |-> base_points + band.captain_bonus,
                       active_players |-> active,
                       details |->
                           [substitutions |-> loop.substitutions,
                            captain_played |-> captain \in Range(active),
                            vice_played |-> vice \in Range(active),
                            captain_used |-> band.captain_used,
                            captain_bonus |-> band.captain_bonus,
                            base_points |-> base_points,
                            num_active_players |-> Len(active)],
                       raised |-> ""]

-----------------------------------------------------------------------------
(* Inputs: a legal team of the table, and the decisions one or two edits away *)

BaseTeam ==
    [squad    |-> <<1, 2, 3, 4, 5, 6, 7, 8, 9, 10, 11, 12, 13, 14, 15>>,
     starters |-> <<1, 3, 4, 5, 6, 8, 9, 10, 11, 13, 14>>,
     bench    |-> (1 :> 2) @@ (2 :> 7) @@ (3 :> 12) @@ (4 :> 15),
     captain  |-> 13,
     vice     |-> 8]

\* The list slots the edits touch: the first entry of each position group of the
\* list (the validator reads a list only through its length and its set of ids).
EditSlots(s) == {i \in DOMAIN s : i = 1 \/ Position(s[i]) # Position(s[i - 1])}

\* An edit <<field, index, id>> of a decision: an entry of a list replaced (index
\* 1..Len), its last entry dropped (index 0) or an entry appended (index Len+1);
\* a bench slot set (1..4), slot 4 dropped (0), a slot 5 added (5), slot 4 moved
\* to key 5 (6); the captain (field 4) or the vice-captain (field 5) changed.
Edits ==
    {<<0, 0, 0>>}
    \cup {<<1, i, j>> : i \in EditSlots(BaseTeam.squad) \cup {SquadSize + 1}, j \in IdPool}
    \cup {<<1, 0, 0>>}
    \cup {<<2, i, j>> : i \in EditSlots(BaseTeam.starters) \cup {XISize + 1}, j \in IdPool}
    \cup {<<2, 0, 0>>}
    \cup {<<3, k, j>> : k \in 1..(BenchSize + 1), j \in IdPool}
    \cup {<<3, 0, 0>>, <<3, BenchSize + 2, 0>>}
    \cup {<<4, 0, j>> : j \in IdPool}
    \cup {<<5, 0, j>> : j \in IdPool}

EditList(s, i, j) ==
    IF i = 0 THEN SubSeq(s, 1, Len(s) - 1)
    ELSE IF i = Len(s) + 1 THEN Append(s, j)
    ELSE IF i \in DOMAIN s THEN [s EXCEPT ![i] = j]
    ELSE s

EditBench(b, k, j) ==
    IF k = 0 THEN [x \in DOMAIN b \ {BenchSize} |-> b[x]]
    ELSE IF k = BenchSize + 2
    THEN [x \in (DOMAIN b \ {BenchSize}) \cup {BenchSize + 1} |->
             IF x = BenchSize + 1 THEN b[BenchSize] ELSE b[x]]
    ELSE [x \in DOMAIN b \cup {k} |-> IF x = k THEN j ELSE b[x]]

ApplyEdit(t, e) ==
    IF e[1] = 1 THEN [t EXCEPT !.squad = EditList(t.squad, e[2], e[3])]
    ELSE IF e[1] = 2 THEN [t EXCEPT !.starters = EditList(t.starters, e[2], e[3])]
    ELSE IF e[1] = 3 /\ BenchSize \in DOMAIN t.bench
    THEN [t EXCEPT !.bench = EditBench(t.bench, e[2], e[3])]
    ELSE IF e[1] = 4 THEN [t EXCEPT !.captain = e[3]]
    ELSE IF e[1] = 5 THEN [t EXCEPT !.vice = e[3]]
    ELSE t

\* e1 before or equal to e2, so that a pair of edits is drawn once.
EditLeq(e1, e2) ==
    \/ e1[1] < e2[1]
    \/ e1[1] = e2[1] /\ e1[2] < e2[2]
    \/ e1[1] = e2[1] /\ e1[2] = e2[2] /\ e1[3] <= e2[3]

\* A points column of the table: small values, zero and negative included.
PointsProfile(k) == [p \in Table |-> ((p * (k + 2)) % 7) - 1]

AllPlayed == [p \in Table |-> MinutesPlayed]


-----------------------------------------------------------------------------
(* validate_team applied to a decision *)

InitValidate ==
    \E e1 \in Edits : \E e2 \in Edits :
        /\ EditLeq(e1, e2)
        /\ LET t == ApplyEdit(ApplyEdit(BaseTeam, e1), e2)
           IN  /\ squad_ids = t.squad
               /\ starter_ids = t.starters
               /\ bench_ids = t.bench
               /\ captain_id = t.captain
               /\ vice_id = t.vice
        /\ pc = "input"
        /\ minutes = AllPlayed
        /\ points = PointsProfile(1)
        /\ players_df = <<>>
        /\ result = Ok
        /\ total_points = 0
        /\ active_players = <<>>
        /\ details = NoDetails
        /\ raised = ""
        /\ TransferIdle
        /\ RolesIdle
        /\ RunIdle

ValidateTeam ==
    /\ pc = "input"
    /\ result' = validate_team(squad_ids, starter_ids, bench_ids, captain_id, vice_id)
    /\ pc' = IF result'.valid THEN "validated" ELSE "rejected"
    /\ UNCHANGED <<squad_ids, starter_ids, bench_ids, captain_id, vice_id, minutes,
                   points, players_df, total_points, active_players, details, raised>>
    /\ UNCHANGED transfer_vars
    /\ UNCHANGED role_vars
    /\ UNCHANGED run_vars

SpecValidate == InitValidate /\ [][ValidateTeam]_vars

-----------------------------------------------------------------------------
(* validate_formation applied to a frame of players *)

\* A frame with the given number of rows of each position.
Column(g, d, m, f) ==
    [i \in 1..(g + d + m + f) |->
        IF i <= g THEN "GK"
        ELSE IF i <= g + d THEN "DEF"
        ELSE IF i <= g + d + m THEN "MID" ELSE "FWD"]

InitFormation ==
    /\ \E g \in 0..MaxPerPos, d \in 0..MaxPerPos, m \in 0..MaxPerPos, f \in 0..MaxPerPos :
           players_df = Column(g, d, m, f)
    /\ pc = "formation_input"
    /\ squad_ids = <<>>
    /\ starter_ids = <<>>
    /\ bench_ids = <<>>
    /\ captain_id = 0
    /\ vice_id = 0
    /\ minutes = AllPlayed
    /\ points = PointsProfile(1)
    /\ result = Ok
    /\ total_points = 0
    /\ active_players = <<>>
    /\ details = NoDetails
    /\ raised = ""
    /\ TransferIdle
    /\ RolesIdle
    /\ RunIdle

ValidateFormation ==
    /\ pc = "formation_input"
    /\ result' = validate_formation(players_df)
    /\ pc' = "formation_checked"
    /\ UNCHANGED <<squad_ids, starter_ids, bench_ids, captain_id, vice_id, minutes,
                   points, players_df, total_points, active_players, details, raised>>
    /\ UNCHANGED transfer_vars
    /\ UNCHANGED role_vars
    /\ UNCHANGED run_vars

SpecFormation == InitFormation /\ [][ValidateFormation]_vars

-----------------------------------------------------------------------------
(* One gameweek of run_backtest: validate_team, then calculate_gameweek_points *)

\* The decisions scored: the base team, and teams one edit away from it: a
\* repeated starter, the starting GK or a starting DEF also on the bench, a FWD
\* twice on the bench, another captain, another vice, vice = captain.
ScoreEdits ==
    {<<0, 0, 0>>, <<2, 2, 4>>, <<3, 1, 1>>, <<3, 2, 3>>, <<3, 3, 15>>,
     <<4, 0, 1>>, <<5, 0, 3>>, <<5, 0, 13>>}

\* The sets of players with 0 minutes: up to MaxAbsent starters, or all of them,
\* and any of the bench players.
AbsentSets ==
    {zs \cup zb :
        zs \in {z \in SUBSET Range(BaseTeam.starters) :
                   Cardinality(z) <= MaxAbsent \/ z = Range(BaseTeam.starters)},
        zb \in SUBSET Range(BaseTeam.bench)}

InitScore ==
    \E e \in ScoreEdits, z \in AbsentSets, k \in 1..NumProfiles :
        /\ LET t == ApplyEdit(BaseTeam, e)
           IN  /\ squad_ids = t.squad
               /\ starter_ids = t.starters
               /\ bench_ids = t.bench
               /\ captain_id = t.captain
               /\ vice_id = t.vice
        /\ pc = "input"
        /\ minutes = [p \in Table |-> IF p \in z THEN 0 ELSE MinutesPlayed]
        /\ points = PointsProfile(k)
        /\ players_df = <<>>
        /\ result = Ok
        /\ total_points = 0
        /\ active_players = <<>>
        /\ details = NoDetails
        /\ raised = ""
        /\ TransferIdle
        /\ RolesIdle
        /\ RunIdle

CalculateGameweekPoints ==
    /\ pc = "validated"
    /\ LET r == calculate_gameweek_points(minutes, points, starter_ids, bench_ids,
                                          captain_id, vice_id)
       IN  /\ total_points' = r.total_points
           /\ active_players' = r.active_players
           /\ details' = r.details
           /\ raised' = r.raised
           /\ pc' = IF r.raised = "" THEN "scored" ELSE "error"
    /\ UNCHANGED <<squad_ids, starter_ids, bench_ids, captain_id, vice_id, minutes,
                   points, players_df, result>>
    /\ UNCHANGED transfer_vars
    /\ UNCHANGED role_vars
    /\ UNCHANGED run_vars

SpecScore == InitScore /\ [][ValidateTeam \/ CalculateGameweekPoints]_vars

-----------------------------------------------------------------------------
(* Claims about validate_team *)

Min(S) == CHOOSE x \in S : \A y \in S : x <= y

Validated == pc \in {"validated", "rejected"}
Accepted == pc = "validated"

\* The entries of a list that are rows of the table with the given position,
\* counted per entry of the list.
EntriesAt(s, pos) == {i \in DOMAIN s : s[i] \in Table /\ Position(s[i]) = pos}
EntriesOf(s, t) == {i \in DOMAIN s : s[i] \in Table /\ Team(s[i]) = t}
\* The players of a decision list that the table knows.
Known(s) == Range(s) \cap Table
KnownAt(s, pos) == {p \in Known(s) : Position(p) = pos}
NoRepeat(s) == \A i, j \in DOMAIN s : i # j => s[i] # s[j]

\* The rules of validate_team, as numbered in its contract, each read off the
\* decision alone.
RuleViolated(n) ==
    CASE n = 1 -> Len(squad_ids) # 15
      [] n = 2 -> \E pos \in Positions :
                      Cardinality(KnownAt(squad_ids, pos)) # expected[pos]
      [] n = 3 -> \E t \in 1..NumPlayers :
                      Cardinality({p \in Known(squad_ids) : Team(p) = t}) > 3
      [] n = 4 -> Len(starter_ids) # 11
      [] n = 5 -> ~ /\ Cardinality(KnownAt(starter_ids, "GK")) = 1
                    /\ Cardinality(KnownAt(starter_ids, "DEF")) \in 3..5
                    /\ Cardinality(KnownAt(starter_ids, "MID")) \in 2..5
                    /\ Cardinality(KnownAt(starter_ids, "FWD")) \in 1..3
      [] n = 6 -> DOMAIN bench_ids # {1, 2, 3, 4}
      [] n = 7 -> ~ /\ 1 \in DOMAIN bench_ids
                    /\ bench_ids[1] \in Table
                    /\ Position(bench_ids[1]) = "GK"
      [] n = 8 -> ~ \A k \in {2, 3, 4} :
                      /\ k \in DOMAIN bench_ids
                      /\ bench_ids[k] \in Table
                      /\ Position(bench_ids[k]) # "GK"
      [] n = 9 -> captain_id = vice_id
      [] n = 10 -> captain_id \notin Range(starter_ids)
      [] n = 11 -> vice_id \notin Range(starter_ids)

ViolatedRules == {n \in 1..11 : RuleViolated(n)}

\* The rule a returned reason belongs to.
RuleOfReason(kind) ==
    CASE kind = "squad_size" -> 1
      [] kind = "squad_composition" -> 2
      [] kind = "club_limit" -> 3
      [] kind = "xi_size" -> 4
      [] kind \in {"xi_gk", "xi_def", "xi_mid", "xi_fwd"} -> 5
      [] kind \in {"bench_size", "bench_keys"} -> 6
      [] kind \in {"bench1_not_found", "bench1_not_gk"} -> 7
      [] kind \in {"bench_not_found", "bench_gk"} -> 8
      [] kind = "captain_is_vice" -> 9
      [] kind = "captain_not_starter" -> 10
      [] kind = "vice_not_starter" -> 11
      [] OTHER -> 0

\* C1: for every input that violates two or more of the eleven rules,
\* validate_team rejects it and the one reason it returns is the reason of the
\* lowest-numbered violated rule.
C1_FirstErrorWins ==
    (Validated /\ Cardinality(ViolatedRules) >= 2) =>
        /\ ~result.valid
        /\ RuleOfReason(result.kind) = Min(ViolatedRules)

\* A rejected input whose captain and vice are both outside the starters: rules
\* 10 and 11 are violated and the captain's reason is returned.
C1_Witness ==
    /\ pc = "rejected"
    /\ ViolatedRules = {10, 11}
    /\ result.kind = "captain_not_starter"

\* C2: every accepted input has a starting lineup of 11 players, with GK = 1,
\* DEF in 3..5, MID in 2..5, FWD in 1..3, summing to 11.
C2_AcceptedLineupHasEleven ==
    Accepted =>
        /\ Cardinality(Known(starter_ids)) = 11
        /\ NoRepeat(starter_ids)
        /\ Cardinality(KnownAt(starter_ids, "GK")) = 1
        /\ Cardinality(KnownAt(starter_ids, "DEF")) \in 3..5
        /\ Cardinality(KnownAt(starter_ids, "MID")) \in 2..5
        /\ Cardinality(KnownAt(starter_ids, "FWD")) \in 1..3

\* C3: every accepted input has a squad of 15 distinct players of the table,
\* with position counts exactly GK 2, DEF 5, MID 5, FWD 3 and no club with more
\* than 3 of them.
C3_AcceptedSquadQuota ==
    Accepted =>
        /\ Len(squad_ids) = 15
        /\ NoRepeat(squad_ids)
        /\ Range(squad_ids) \subseteq Table
        /\ \A pos \in Positions : Cardinality(EntriesAt(squad_ids, pos)) = expected[pos]
        /\ \A p \in Range(squad_ids) : Cardinality(EntriesOf(squad_ids, Team(p))) <= 3

\* An accepted input whose squad is not the base squad: the spare goalkeeper 16
\* is in it.
C3_Witness == Accepted /\ 16 \in Range(squad_ids)

\* C4: in every accepted team every starter id is a member of the squad.
C4_StartersInSquad == Accepted => Range(starter_ids) \subseteq Range(squad_ids)

\* C5: in every accepted team the four bench players are pairwise distinct and
\* are exactly the squad members that are not starters.
C5_BenchIsSquadMinusStarters ==
    Accepted =>
        /\ \A j, k \in DOMAIN bench_ids : j # k => bench_ids[j] # bench_ids[k]
        /\ Range(bench_ids) = Range(squad_ids) \ Range(starter_ids)

-----------------------------------------------------------------------------
(* Claims about validate_formation *)

FormationChecked == pc = "formation_checked"

\* Rows of a frame with the given position, counted from the column itself.
Rows(col, pos) == Len(SelectSeq(col, LAMBDA x : x = pos))

\* C6 as stated: validate_formation on a frame of exactly one GK succeeds.
C6_SingleGKPasses == (FormationChecked /\ players_df = <<"GK">>) => result.valid

\* C6 as amended: validate_formation on a frame of exactly one GK fails with the
\* DEF reason (3-5 DEF, found 0): the DEF bound is not gated by size.
C6_SingleGKFailsOnDEF ==
    (FormationChecked /\ players_df = <<"GK">>) =>
        /\ ~result.valid
        /\ result.kind = "formation_def"
        /\ result.args = <<0>>

C6_Witness == FormationChecked /\ players_df = <<"GK">>

\* The verdict the ordered rules give: GK = 1 at every size, DEF in 3..5, MID in
\* 2..5 from size 4 on, FWD in 1..3 from size 5 on; the first failing rule.
FormationVerdict(col) ==
    IF Rows(col, "GK") # 1 THEN "formation_gk"
    ELSE IF Rows(col, "DEF") \notin 3..5 THEN "formation_def"
    ELSE IF Len(col) >= 4 /\ Rows(col, "MID") \notin 2..5 THEN "formation_mid"
    ELSE IF Len(col) >= 5 /\ Rows(col, "FWD") \notin 1..3 THEN "formation_fwd"
    ELSE ""

\* C7: validate_formation applies GK = 1, DEF in 3..5, MID in 2..5 (size >= 4),
\* FWD in 1..3 (size >= 5) in this order and returns the first failing rule; a
\* frame passing all applicable rules is accepted; {GK,DEF,DEF,DEF} is rejected
\* with the MID reason.
C7_FormationRuleOrder ==
    FormationChecked =>
        /\ result.kind = FormationVerdict(players_df)
        /\ result.valid <=> FormationVerdict(players_df) = ""
        /\ players_df = <<"GK", "DEF", "DEF", "DEF">> => result.kind = "formation_mid"

C7_Witness ==
    /\ FormationChecked
    /\ players_df = <<"GK", "DEF", "DEF", "DEF">>
    /\ result.kind = "formation_mid"

-----------------------------------------------------------------------------
(* Claims about calculate_gameweek_points *)

Scored == pc = "scored"

\* Every starter of the decision that the table knows has minutes = 0.
NoStarterPlayed == \A p \in Known(starter_ids) : minutes[p] = 0
SomeStarterPlayed == \E p \in Known(starter_ids) : minutes[p] > 0

\* The armband a breakdown reports as used, None when it reports none.
ArmbandReported(d) ==
    IF "captain_used" \in DOMAIN d THEN d.captain_used ELSE None

\* C8: when every starter has minutes = 0, the result is total 0, an empty
\* active set, an empty substitutions list and no armband used, whatever the
\* minutes and points of the bench players.
C8_NoStarterPlayed ==
    (Scored /\ NoStarterPlayed) =>
        /\ total_points = 0
        /\ active_players = <<>>
        /\ details.substitutions = <<>>
        /\ ~details.captain_played
        /\ ~details.vice_played
        /\ ArmbandReported(details) = None

\* No starter played, while every bench player did, one of them with points.
C8_Witness ==
    /\ Scored
    /\ NoStarterPlayed
    /\ \A k \in DOMAIN bench_ids : minutes[bench_ids[k]] > 0
    /\ \E k \in DOMAIN bench_ids : points[bench_ids[k]] > 0

\* C9: with at least one active starter: captain in the final active set =>
\* bonus = captain's points, armband = captain; else vice in the final active
\* set => bonus = vice's points once, armband = vice; else bonus 0, armband
\* none; and total = sum of points over the final active set + bonus.
C9_ArmbandRule ==
    (Scored /\ SomeStarterPlayed) =>
        /\ captain_id \in Range(active_players) =>
               /\ details.captain_bonus = points[captain_id]
               /\ details.captain_used = "captain"
        /\ (captain_id \notin Range(active_players) /\ vice_id \in Range(active_players)) =>
               /\ details.captain_bonus = points[vice_id]
               /\ details.captain_used = "vice"
        /\ (captain_id \notin Range(active_players) /\ vice_id \notin Range(active_players)) =>
               /\ details.captain_bonus = 0
               /\ details.captain_used = None
        /\ total_points = SumSeq(points, active_players) + details.captain_bonus

\* The captain did not play, the vice did and carries the armband with points
\* other than 0.
C9_Witness ==
    /\ Scored
    /\ minutes[captain_id] = 0
    /\ vice_id \in Range(active_players)
    /\ details.captain_used = "vice"
    /\ points[vice_id] # 0

BreakdownFields ==
    {"substitutions", "captain_played", "vice_played", "captain_used",
     "captain_bonus", "base_points", "num_active_players"}

\* C10: every result of calculate_gameweek_points, the one of the
\* no-starter-played path included, carries a breakdown with the substitutions,
\* captain played, vice played, armband used, bonus, base points and final
\* active count.
C10_BreakdownComplete == Scored => BreakdownFields \subseteq DOMAIN details

-----------------------------------------------------------------------------
(* Transfer state of the optimiser chains:                                 *)
(* optimiser/milp/post_gw1_step1.py (state update after the solve) and     *)
(* optimiser/cp_minizinc/post_gw1_step1_minizinc.py                        *)

\* Budget of the initial squad, tenths of a million.
Budget == 1000

\* Free transfers of the season-start state.
InitialFreeTransfers == 2

\* players_df['player_id'].tolist() of the optimiser: the rows of the base squad
\* and one spare goalkeeper and one spare defender.
player_ids == 1..(SquadSize + 2)

Max(a, b) == IF a >= b THEN a ELSE b

RECURSIVE SumOver(_, _)
\* sum(fn[pid] for pid in S)
SumOver(fn, S) ==
    IF S = {} THEN 0
    ELSE LET p == CHOOSE q \in S : TRUE IN fn[p] + SumOver(fn, S \ {p})

\* The ids a vector marks with 1.
Marked(v) == {pid \in DOMAIN v : v[pid] = 1}

\* Half of a profit rounded down.
floor_half(n) == n \div 2

\* math.ceil(0.5 * profit)
ceil_half(n) == -((-n) \div 2)

\* MILP: the selling price of one player (50% profit lock).
selling_price(purchase_price, current_price) ==
    IF current_price > purchase_price
    THEN purchase_price + ceil_half(current_price - purchase_price)
    ELSE current_price

\* Every player sells at the current cost.
selling_prices_at_cost(p0v, costv) == [pid \in player_ids |-> costv[pid]]

\* MILP: selling_prices, for every player.
selling_prices(p0v, costv) == [pid \in player_ids |-> selling_price(p0v[pid], costv[pid])]

\* CP: the entry calculate_selling_prices computes for one player.
calculate_selling_price(purchase_price, current_price) ==
    IF current_price > purchase_price /\ purchase_price > 0
    THEN purchase_price + ceil_half(current_price - purchase_price)
    ELSE IF purchase_price > 0 THEN current_price ELSE 0

\* CP: calculate_selling_prices(players_df, p0, player_id_to_idx)
calculate_selling_prices(p0v, costv) ==
    [pid \in player_ids |-> calculate_selling_price(p0v[pid], costv[pid])]

\* A player left alone is repriced at the current cost.
p0_entry_repriced(sold, bought, old, current) ==
    IF sold THEN 0 ELSE current

\* A sold player keeps the purchase price.
p0_entry_keep_sold(sold, bought, old, current) ==
    IF sold THEN old ELSE IF bought THEN current ELSE old

\* MILP: the purchase price of one player after the update.
p0_entry(sold, bought, old, current) ==
    IF sold THEN 0 ELSE IF bought THEN current ELSE old

\* CP: p0_new[pid]
p0_new_entry(sold, bought, old, current) ==
    IF sold THEN 0 ELSE IF bought THEN current ELSE old

\* The counter goes below zero when more transfers are made than are free.
remaining_free_transfers_unfloored(fr, made) == fr - made

\* MILP: remaining_free_transfers
remaining_free_transfers(fr, made) == Max(0, fr - made)

\* The carried allowance is not capped.
f_new_uncapped(fr, made) ==
    IF made <= fr
    THEN (IF fr - made > 0 THEN 1 + (fr - made) ELSE 1)
    ELSE 1

\* CP: f_new
f_new(fr, made) ==
    IF made <= fr
    THEN (IF fr - made > 0 THEN Min({2, 1 + (fr - made)}) ELSE 1)
    ELSE 1

\* The state a solution carries for the next gameweek.
State(y, p, fr, bank) == [raised |-> "", y0 |-> y, p0 |-> p, f |-> fr, B_bank |-> bank]

\* The updated state, and the selling prices the update used.
Updated(y, p, fr, bank, sp) ==
    [raised |-> "", y0 |-> y, p0 |-> p, f |-> fr, B_bank |-> bank, selling_prices |-> sp]

Raise(e) == [raised |-> e]

\* MILP: y_i = y_i^0 + t_i - s_i
y_star(y0v, t, s) ==
    [pid \in player_ids |-> y0v[pid] + (IF pid \in t THEN 1 ELSE 0) - (IF pid \in s THEN 1 ELSE 0)]

\* CP: params['sp'] of prepare_post_gw1_parameters: the list p0 itself.
sp_parameter(p0v) == p0v

\* MILP: optimize_post_gw1_step1 from the selling prices on, for the decision
\* (t, s) of the solver.
optimize_post_gw1_step1(y0v, p0v, fr, bank, costv, t, s) ==
    IF ~(player_ids \subseteq DOMAIN p0v /\ player_ids \subseteq DOMAIN y0v) THEN Raise("KeyError")
    ELSE
    LET sp == selling_prices(p0v, costv)
        total_transfers_made == Cardinality(t)
        p0_upd == [pid \in DOMAIN p0v |->
                      IF pid \in player_ids
                      THEN p0_entry(pid \in s, pid \in t, p0v[pid], costv[pid])
                      ELSE p0v[pid]]
        total_selling_proceeds == SumOver(sp, s)
        total_purchase_costs == SumOver(costv, t)
    IN  Updated(y_star(y0v, t, s), p0_upd,
                remaining_free_transfers(fr, total_transfers_made),
                bank + total_selling_proceeds - total_purchase_costs, sp)
\* CP: the length assertions of prepare_post_gw1_parameters.
prepare_post_gw1_parameters(y0v, p0v) ==
    IF DOMAIN y0v = player_ids /\ DOMAIN p0v = player_ids THEN "" ELSE "AssertionError"

\* CP: result['y'] of the solver, the squad after the decision.
result_y(y0v, t, s) ==
    [pid \in player_ids |-> IF (y0v[pid] = 1 \/ pid \in t) /\ pid \notin s THEN 1 ELSE 0]

\* CP: parse_post_gw1_output for a result holding the squad y and the decision (t, s).
parse_post_gw1_output(y, p0v, fr, bank, costv, t, s) ==
    LET p0_new == [pid \in player_ids |->
                      p0_new_entry(pid \in s, pid \in t, p0v[pid], costv[pid])]
        sp == calculate_selling_prices(p0v, costv)
        total_selling_proceeds == SumOver(sp, s)
        total_purchase_costs == SumOver(costv, t)
        B_bank_new == bank + total_selling_proceeds - total_purchase_costs
        total_transfers_made == Cardinality(t)
    IN  Updated(y, p0_new, f_new(fr, total_transfers_made), B_bank_new, sp)

\* CP: optimize_post_gw1_step1_minizinc, the solver having returned (y, t, s).
optimize_post_gw1_step1_minizinc(y0v, p0v, fr, bank, costv, t, s) ==
    IF prepare_post_gw1_parameters(y0v, p0v) # ""
    THEN Raise(prepare_post_gw1_parameters(y0v, p0v))
    ELSE parse_post_gw1_output(result_y(y0v, t, s), p0v, fr, bank, costv, t, s)

\* The squad constraints of the solvers: 15 players, 2-5-5-3, at most 3 per club.
SquadOk(Y) ==
    /\ Cardinality(Y) = SquadSize
    /\ \A pos \in Positions : PositionCount(Y, pos) = expected[pos]
    /\ \A club \in Teams(Y) : TeamCount(Y, club) <= ClubLimit

\* The squads of the table: all of its rows but two.
ValidSquads == {Y \in {player_ids \ {a, b} : a \in player_ids, b \in player_ids} : SquadOk(Y)}

\* The 0/1 vector of a set of ids.
Vector(Y) == [pid \in player_ids |-> IF pid \in Y THEN 1 ELSE 0]

\* MILP: the constraints of optimize_post_gw1_step1 on the squad and the transfers.
\* MILP: the constraints without Budget_Limit.
Feasible_unbudgeted(y0v, p0v, bank, costv, t, s) ==
    /\ t \cap s = {}
    /\ t \cap Marked(y0v) = {}
    /\ s \subseteq Marked(y0v)
    /\ SquadOk(Marked(y_star(y0v, t, s)))

Feasible(y0v, p0v, bank, costv, t, s) ==
    /\ t \cap s = {}
    /\ t \cap Marked(y0v) = {}
    /\ s \subseteq Marked(y0v)
    /\ SquadOk(Marked(y_star(y0v, t, s)))
    /\ SumOver(costv, t) <= bank + SumOver(selling_prices(p0v, costv), s)

\* CP: the constraints of post_gw1_step1.mzn, with the parameter 'sp' as
\* prepare_post_gw1_parameters sets it.
mzn_feasible(y0v, p0v, bank, costv, t, s) ==
    /\ t \cap s = {}
    /\ t \cap Marked(y0v) = {}
    /\ s \subseteq Marked(y0v)
    /\ SquadOk(Marked(result_y(y0v, t, s)))
    /\ SumOver(costv, t) <= bank + SumOver(sp_parameter(p0v), s)

\* The decisions that move the squad Y to another squad.
Moves(Y) == {<<Z \ Y, Y \ Z>> : Z \in ValidSquads}

\* Costs of the players in a gameweek's data, tenths of a million.
CostProfile(k) == [pid \in player_ids |-> 45 + ((pid * k) % 7) + k]

\* Purchase prices of a squad bought at the costs of profile k.
Bought(Y, k) == [pid \in player_ids |-> IF pid \in Y THEN CostProfile(k)[pid] ELSE 0]

\* MILP: the state optimize_pre_gw1_step2 returns for the squad Y.
optimize_pre_gw1_step2(costv, Y) ==
    State(Vector(Y),
          [pid \in player_ids |-> IF pid \in Y THEN costv[pid] ELSE 0],
          InitialFreeTransfers,
          Budget - SumOver(costv, Y))

\* CP: the state optimize_pre_gw1_step2_minizinc returns for the squad Y.
optimize_pre_gw1_step2_minizinc(costv, Y) ==
    State(Vector(Y),
          [pid \in player_ids |-> IF pid \in Y THEN costv[pid] ELSE 0],
          InitialFreeTransfers,
          Budget - SumOver(costv, Y))

Chains == {"MILP", "CP"}
-----------------------------------------------------------------------------
(* The state update applied to one state and one decision *)

\* The backtester variables of a run that only exercises the optimiser.
BacktestIdle ==
    /\ squad_ids = <<>>
    /\ starter_ids = <<>>
    /\ bench_ids = <<>>
    /\ captain_id = 0
    /\ vice_id = 0
    /\ minutes = AllPlayed
    /\ points = PointsProfile(1)
    /\ players_df = <<>>
    /\ result = Ok
    /\ total_points = 0
    /\ active_players = <<>>
    /\ details = NoDetails

\* A vector as handed over: of the table's length, one entry short, one too long.
Shapes == {"table", "short", "long"}

Shaped(v, shape) ==
    IF shape = "short" THEN [pid \in 1..(Cardinality(player_ids) - 1) |-> v[pid]]
    ELSE IF shape = "long"
         THEN [pid \in 1..(Cardinality(player_ids) + 1) |-> IF pid \in player_ids THEN v[pid] ELSE 0]
         ELSE v

\* The free transfers a chain can hold.
FreeRange(ch) == IF ch = "MILP" THEN 0..InitialFreeTransfers ELSE 1..InitialFreeTransfers

\* The players a result of the CP solver is taken to sell: forwards and players not owned.
SoldPool(Y) == {pid \in player_ids : Position(pid) = "FWD"} \cup (player_ids \ Y)

\* The decisions the update is applied to: what the MILP solver can return, and
\* for the CP chain also results that sell from SoldPool whatever is owned.
AdvanceDecisions(ch, Y, p0v, bank, costv) ==
    IF ch = "MILP"
    THEN {d \in Moves(Y) : Feasible(Vector(Y), p0v, bank, costv, d[1], d[2])}
    ELSE {d \in Moves(Y) : mzn_feasible(Vector(Y), p0v, bank, costv, d[1], d[2])}
         \cup {<<t, s>> : t \in SUBSET (player_ids \ Y),
                          s \in {z \in SUBSET SoldPool(Y) :
                                    Cardinality(z) <= Cardinality(player_ids \ Y)}}

InitAdvance ==
    \E ch \in Chains, Y \in ValidSquads, kp \in 1..NumProfiles, kc \in 1..NumProfiles,
       shape \in Shapes :
        \E fr \in FreeRange(ch) :
        \E d \in AdvanceDecisions(ch, Y, Bought(Y, kp), Budget - SumOver(Bought(Y, kp), Y),
                                  CostProfile(kc)) :
            /\ shape # "table" => d = <<{}, {}>>
            /\ chain = ch
            /\ gw = 2
            /\ y0 = Shaped(Vector(Y), shape)
            /\ p0 = Shaped(Bought(Y, kp), shape)
            /\ free_transfers = fr
            /\ B_bank = Budget - SumOver(Bought(Y, kp), Y)
            /\ cost = CostProfile(kc)
            /\ t_star = d[1]
            /\ s_star = d[2]
            /\ solution = NoSolution
            /\ results = <<>>
            /\ pc = "solved"
            /\ raised = ""
            /\ BacktestIdle
            /\ RolesIdle
            /\ RunIdle

\* The state update of the chain, applied to the decision the solver returned.
UpdateState ==
    /\ pc = "solved"
    /\ LET r == IF chain = "MILP"
                THEN optimize_post_gw1_step1(y0, p0, free_transfers, B_bank, cost,
                                             t_star, s_star)
                ELSE optimize_post_gw1_step1_minizinc(y0, p0, free_transfers, B_bank, cost,
                                                      t_star, s_star)
       IN  /\ raised' = r.raised
           /\ solution' = IF r.raised = "" THEN r ELSE NoSolution
           /\ pc' = IF r.raised = "" THEN "updated" ELSE "update_error"
    /\ UNCHANGED <<chain, gw, y0, p0, free_transfers, B_bank, cost, t_star, s_star,
                   results>>
    /\ UNCHANGED backtest_vars
    /\ UNCHANGED role_vars
    /\ UNCHANGED run_vars

SpecAdvance == InitAdvance /\ [][UpdateState]_vars

-----------------------------------------------------------------------------
(* run_full_season: the chain of transfer states *)

\* Gameweeks the model of the season runs through.
MaxGW == 3

\* The costs in the data of gameweek g: the profile of the gameweek at a price
\* level where the squads of the table cost close to the budget (midfielders
\* and forwards a tenth more), lower in the even gameweeks.
GwCost(g) ==
    [pid \in player_ids |->
        CostProfile(((g - 1) % NumProfiles) + 1)[pid] + 17
        + (IF Position(pid) \in {"MID", "FWD"} THEN 1 ELSE 0) - 3 * ((g - 1) % 2)]

InitSeason ==
    /\ chain \in Chains
    /\ gw = 0
    /\ y0 = <<>>
    /\ p0 = <<>>
    /\ free_transfers = 0
    /\ B_bank = 0
    /\ cost = <<>>
    /\ t_star = {}
    /\ s_star = {}
    /\ solution = NoSolution
    /\ results = <<>>
    /\ pc = "season"
    /\ raised = ""
    /\ BacktestIdle
    /\ RolesIdle
    /\ RunIdle

\* The bank of the runner is not updated from the solution.
Adopt_stale_bank(r) ==
    /\ y0' = r.y0
    /\ p0' = r.p0
    /\ B_bank' = B_bank
    /\ free_transfers' = r.f
    /\ solution' = r

\* State variables of the runner take the state of the solution.
Adopt(r) ==
    /\ y0' = r.y0
    /\ p0' = r.p0
    /\ B_bank' = r.B_bank
    /\ free_transfers' = r.f
    /\ solution' = r

\* results[f"gw{gw}"] = convert_solution_for_json(solution)
Store(g) == results' = (g :> solution') @@ results

\* Gameweek 1: optimize_gw1 returns a squad within the budget.
OptimizeGw1 ==
    /\ pc = "season"
    /\ gw = 0
    /\ \E Y \in ValidSquads :
        /\ SumOver(GwCost(1), Y) <= Budget
        /\ Adopt(IF chain = "MILP" THEN optimize_pre_gw1_step2(GwCost(1), Y)
                 ELSE optimize_pre_gw1_step2_minizinc(GwCost(1), Y))
    /\ Store(1)
    /\ cost' = GwCost(1)
    /\ gw' = 1
    /\ UNCHANGED <<pc, raised, chain, t_star, s_star>>
    /\ UNCHANGED backtest_vars
    /\ UNCHANGED role_vars
    /\ UNCHANGED run_vars

\* Gameweek 2 and later: optimize_gw_post1 solves and returns the updated state.
OptimizeGwPost1 ==
    /\ pc = "season"
    /\ gw >= 1
    /\ gw < MaxGW
    /\ \E d \in Moves(Marked(y0)) :
        /\ IF chain = "MILP"
           THEN Feasible(y0, p0, B_bank, GwCost(gw + 1), d[1], d[2])
           ELSE mzn_feasible(y0, p0, B_bank, GwCost(gw + 1), d[1], d[2])
        /\ Adopt(IF chain = "MILP"
                 THEN optimize_post_gw1_step1(y0, p0, free_transfers, B_bank,
                                              GwCost(gw + 1), d[1], d[2])
                 ELSE optimize_post_gw1_step1_minizinc(y0, p0, free_transfers, B_bank,
                                                       GwCost(gw + 1), d[1], d[2]))
        /\ t_star' = d[1]
        /\ s_star' = d[2]
    /\ Store(gw + 1)
    /\ cost' = GwCost(gw + 1)
    /\ gw' = gw + 1
    /\ UNCHANGED <<pc, raised, chain>>
    /\ UNCHANGED backtest_vars
    /\ UNCHANGED role_vars
    /\ UNCHANGED run_vars

\* The solve of the next gameweek raises: the loop breaks, the state stays.
SolveFails ==
    /\ pc = "season"
    /\ gw < MaxGW
    /\ pc' = "season_stopped"
    /\ raised' = "ValueError"
    /\ UNCHANGED transfer_vars
    /\ UNCHANGED backtest_vars
    /\ UNCHANGED role_vars
    /\ UNCHANGED run_vars

SpecSeason == InitSeason /\ [][OptimizeGw1 \/ OptimizeGwPost1 \/ SolveFails]_vars

-----------------------------------------------------------------------------
(* Claims about the transfer state update *)

StateUpdated == pc = "updated"

\* The 50% profit lock as a rule on two prices.
ProfitLock(p, c) == IF c > p THEN p + ((c - p + 1) \div 2) ELSE c

CreditedPrice(pid) ==
    IF p0[pid] > 0 \/ chain = "MILP" THEN ProfitLock(p0[pid], cost[pid]) ELSE 0

\* C12: the new bank balance is the old one plus the selling prices of the sold
\* players, taken from the purchase prices before the update and the current
\* costs, minus the current costs of the bought players.
C12_BankUpdate ==
    StateUpdated =>
        solution.B_bank =
            B_bank + SumOver([pid \in player_ids |-> CreditedPrice(pid)], s_star)
                   - SumOver(cost, t_star)

\* An update that buys, and sells an owned player at a locked profit.
C12_Witness ==
    /\ StateUpdated
    /\ t_star # {}
    /\ \E pid \in s_star : p0[pid] > 0 /\ cost[pid] > p0[pid] + 1
    /\ solution.B_bank # B_bank

\* C13: a sold player's purchase price becomes 0, a bought player's becomes the
\* player's current cost, every other player's stays as it was, for every
\* decision that does not both buy and sell one player.
C13_PurchasePriceUpdate ==
    (StateUpdated /\ t_star \cap s_star = {}) =>
        \A pid \in player_ids :
            /\ pid \in s_star => solution.p0[pid] = 0
            /\ pid \in t_star => solution.p0[pid] = cost[pid]
            /\ pid \notin t_star \cup s_star => solution.p0[pid] = p0[pid]

\* An update that buys and sells and leaves alone an owned player whose cost
\* has moved from its purchase price.
C13_Witness ==
    /\ StateUpdated
    /\ t_star # {} /\ s_star # {} /\ t_star \cap s_star = {}
    /\ \E pid \in player_ids \ (t_star \cup s_star) :
           p0[pid] > 0 /\ cost[pid] # p0[pid] /\ solution.p0[pid] = p0[pid]

\* Players the decision buys.
Made == Cardinality(t_star)

\* C14: in the CP chain, made <= free and free - made > 0 give
\* min(2, 1 + (free - made)); made <= free and free - made = 0 give 1;
\* made > free gives 1.
C14_CpCarryover ==
    (StateUpdated /\ chain = "CP") =>
        /\ (Made <= free_transfers /\ free_transfers - Made > 0) =>
               solution.f = Min({2, 1 + (free_transfers - Made)})
        /\ (Made <= free_transfers /\ free_transfers - Made = 0) => solution.f = 1
        /\ Made > free_transfers => solution.f = 1

\* A CP update that leaves two free transfers unused: the carryover is capped.
C14_Witness ==
    /\ StateUpdated
    /\ chain = "CP"
    /\ free_transfers = 2
    /\ Made = 0
    /\ solution.f = 2

\* C15 (as stated): in the MILP chain, from a counter of at least 1,
\* newFree = min(2, 1 + (free - made)) when made < free and 1 otherwise.
C15_MilpCarryover ==
    (StateUpdated /\ chain = "MILP" /\ free_transfers >= 1) =>
        solution.f = IF Made < free_transfers
                     THEN Min({2, 1 + (free_transfers - Made)})
                     ELSE 1

-----------------------------------------------------------------------------
(* Claims about the chain of transfer states *)

\* The runner holds a transfer state: gameweek 1 has been solved.
HasState == gw >= 1

\* C16: in every state reachable from the season start by gameweek advances,
\* in either chain, the free-transfer counter is an integer from 0 to 2.
C16_FreeTransfersInRange ==
    HasState => (free_transfers \in Nat /\ free_transfers <= 2)

\* The MILP chain after two advances, the later one buying with no free
\* transfer left.
C16_Witness ==
    /\ gw >= 3
    /\ chain = "MILP"
    /\ t_star # {}
    /\ free_transfers = 0

\* C17: in every state reachable by advances that sell owned and buy unowned
\* players, the purchase price is non-zero exactly for the 15 owned players.
C17_PurchasePriceMarksOwned ==
    HasState =>
        /\ Cardinality(Marked(y0)) = 15
        /\ \A pid \in player_ids : (p0[pid] # 0) <=> (y0[pid] = 1)

\* The CP chain after an advance that sold one player and bought another.
C17_Witness ==
    /\ gw >= 2
    /\ chain = "CP"
    /\ t_star # {}
    /\ s_star # {}
    /\ \A pid \in s_star : p0[pid] = 0
    /\ \A pid \in t_star : p0[pid] = cost[pid]

\* The decision sells a player the input state does not own, or a vector has
\* not the length of the player table.
Inconsistent ==
    \/ DOMAIN y0 # player_ids
    \/ DOMAIN p0 # player_ids
    \/ \E pid \in s_star : y0[pid] # 1

\* C18 (as stated): the update of a structurally inconsistent decision fails
\* with an error and yields no new state.
C18_InconsistentDecisionFails ==
    (pc \in {"updated", "update_error"} /\ Inconsistent) =>
        (pc = "update_error" /\ raised # "" /\ solution = NoSolution)

-----------------------------------------------------------------------------
(* Post-hoc role assignment: optimiser/utils.py *)

RECURSIVE max_from_last(_, _, _)
\* A running best replaced also by an equal key: the last maximum.
max_from_last(best, rest, key) ==
    IF rest = <<>> THEN best
    ELSE max_from_last(IF key[Head(rest)] >= key[best] THEN Head(rest) ELSE best,
                       Tail(rest), key)

py_max_last(s, key) == max_from_last(Head(s), Tail(s), key)

RECURSIVE max_from(_, _, _)
\* max(iterable, key=...): the running best is replaced only by a larger key.
max_from(best, rest, key) ==
    IF rest = <<>> THEN best
    ELSE max_from(IF key[Head(rest)] > key[best] THEN Head(rest) ELSE best,
                  Tail(rest), key)

\* max(s, key=...) of a non-empty list.
py_max(s, key) == max_from(Head(s), Tail(s), key)

RECURSIVE insert_desc_before_ties(_, _, _)
\* x goes in front of the entries with its own key.
insert_desc_before_ties(x, s, key) ==
    IF s = <<>> THEN <<x>>
    ELSE IF key[Head(s)] > key[x]
    THEN <<Head(s)>> \o insert_desc_before_ties(x, Tail(s), key)
    ELSE <<x>> \o s

RECURSIVE insert_desc(_, _, _)
\* x goes behind every entry whose key is at least its own.
insert_desc(x, s, key) ==
    IF s = <<>> THEN <<x>>
    ELSE IF key[Head(s)] >= key[x] THEN <<Head(s)>> \o insert_desc(x, Tail(s), key)
    ELSE <<x>> \o s

RECURSIVE sorted_reverse(_, _)
\* sorted(s, key=..., reverse=True): descending, equal keys in encounter order.
sorted_reverse(s, key) ==
    IF s = <<>> THEN <<>>
    ELSE insert_desc(s[Len(s)], sorted_reverse(SubSeq(s, 1, Len(s) - 1), key), key)

\* The bench order, or the error raised.
BenchOrder(order) == [raised |-> "", order |-> order]

\* A bench with more than 3 outfield players passes.
assign_bench_positions_short_only(bench_list, ep) ==
    LET bench_gks == SelectSeq(bench_list, LAMBDA pid : Position(pid) = "GK")
        outfield_ids == SelectSeq(bench_list, LAMBDA pid : Position(pid) # "GK")
    IN  IF Len(bench_gks) # 1 THEN Raise("ValueError")
        ELSE IF Len(outfield_ids) < 3 THEN Raise("ValueError")
        ELSE BenchOrder(<<bench_gks[1]>> \o sorted_reverse(outfield_ids, ep))

\* The bench GK is put in the last slot.
assign_bench_positions_gk_last(bench_list, ep) ==
    LET bench_gks == SelectSeq(bench_list, LAMBDA pid : Position(pid) = "GK")
        outfield_ids == SelectSeq(bench_list, LAMBDA pid : Position(pid) # "GK")
    IN  IF Len(bench_gks) # 1 THEN Raise("ValueError")
        ELSE IF Len(outfield_ids) # 3 THEN Raise("ValueError")
        ELSE BenchOrder(sorted_reverse(outfield_ids, ep) \o <<bench_gks[1]>>)

assign_bench_positions(bench_list, ep) ==
    LET bench_gks == SelectSeq(bench_list, LAMBDA pid : Position(pid) = "GK")
        outfield_ids == SelectSeq(bench_list, LAMBDA pid : Position(pid) # "GK")
    IN  IF Len(bench_gks) # 1 THEN Raise("ValueError")
        ELSE IF Len(outfield_ids) # 3 THEN Raise("ValueError")
        ELSE BenchOrder(<<bench_gks[1]>> \o sorted_reverse(outfield_ids, ep))

\* {pid: (1 if pid == id else 0) for pid in player_ids}
Indicator(ids, id) == [pid \in Range(ids) |-> IF pid = id THEN 1 ELSE 0]

\* The post-hoc assignments returned.
PostHoc(ids, vice_captain_id, bench_order) ==
    [raised |-> "",
     v |-> Indicator(ids, vice_captain_id),
     b1 |-> Indicator(ids, bench_order[1]),
     b2 |-> Indicator(ids, bench_order[2]),
     b3 |-> Indicator(ids, bench_order[3]),
     b4 |-> Indicator(ids, bench_order[4])]

\* process_pre_gw1_solution; ids is the key order of the dicts x, y2 and c.
process_pre_gw1_solution(ids, x, y2, c, ep) ==
    LET squad_list == SelectSeq(ids, LAMBDA pid : y2[pid] = 1)
        starter_list == SelectSeq(ids, LAMBDA pid : x[pid] = 1)
        bench_list == SelectSeq(squad_list, LAMBDA pid : pid \notin Range(starter_list))
        candidates == SelectSeq(ids, LAMBDA pid : x[pid] = 1 /\ c[pid] = 0)
        bench_order == assign_bench_positions(bench_list, ep)
    IN  IF candidates = <<>> THEN Raise("ValueError")
        ELSE IF bench_order.raised # "" THEN Raise(bench_order.raised)
        ELSE PostHoc(ids, py_max(candidates, ep), bench_order.order)

\* process_post_gw1_solution; ids is the row order of players_df.
process_post_gw1_solution(ids, x, y, c, ep) ==
    LET squad_list == SelectSeq(ids, LAMBDA pid : y[pid] = 1)
        starter_list == SelectSeq(ids, LAMBDA pid : x[pid] = 1)
        bench_list == SelectSeq(squad_list, LAMBDA pid : pid \notin Range(starter_list))
        candidates == SelectSeq(ids, LAMBDA pid : x[pid] = 1 /\ c[pid] = 0)
        bench_order == assign_bench_positions(bench_list, ep)
    IN  IF candidates = <<>> THEN Raise("ValueError")
        ELSE IF bench_order.raised # "" THEN Raise(bench_order.raised)
        ELSE PostHoc(ids, py_max(candidates, ep), bench_order.order)

-----------------------------------------------------------------------------
(* The role assigner applied to a decision *)

\* Starters of the decision: the base lineup, one starter left out or not, one
\* other player put in or not.
RoleStarters ==
    {(Range(BaseTeam.starters) \ A) \cup B :
        A \in {Z \in SUBSET Range(BaseTeam.starters) : Cardinality(Z) <= 1},
        B \in {Z \in SUBSET (Table \ Range(BaseTeam.starters)) : Cardinality(Z) <= 1}}

\* Squads of the decision: the base squad, one player fewer, one player more.
RoleSquads ==
    {Range(BaseTeam.squad), Range(BaseTeam.squad) \ {SquadSize},
     Range(BaseTeam.squad) \cup {SquadSize + 1}}

\* Row orders of the frame: by id ascending and descending.
RowOrders ==
    {[i \in 1..NumPlayers |-> i], [i \in 1..NumPlayers |-> NumPlayers + 1 - i]}

Flags(S) == [pid \in Table |-> IF pid \in S THEN 1 ELSE 0]

InitRoles ==
    \E X \in RoleStarters, Y \in RoleSquads, k \in 1..NumProfiles, ids \in RowOrders :
        \E cap \in X :
            /\ df_ids = ids
            /\ x_star = Flags(X)
            /\ y2_star = Flags(Y)
            /\ c_star = Flags({cap})
            /\ expected_points = PointsProfile(k)
            /\ post_hoc = NoSolution
            /\ pc \in {"gw1_solved", "post_gw1_solved"}
            /\ raised = ""
            /\ BacktestIdle
            /\ TransferIdle
            /\ RunIdle

\* The solution of gameweek 1 gets its vice-captain and bench order.
ProcessPreGw1Solution ==
    /\ pc = "gw1_solved"
    /\ LET r == process_pre_gw1_solution(df_ids, x_star, y2_star, c_star, expected_points)
       IN  /\ raised' = r.raised
           /\ post_hoc' = IF r.raised = "" THEN r ELSE NoSolution
           /\ pc' = IF r.raised = "" THEN "roles" ELSE "roles_error"
    /\ UNCHANGED <<df_ids, x_star, y2_star, c_star, expected_points>>
    /\ UNCHANGED backtest_vars
    /\ UNCHANGED transfer_vars
    /\ UNCHANGED run_vars

\* The solution of a later gameweek gets its vice-captain and bench order.
ProcessPostGw1Solution ==
    /\ pc = "post_gw1_solved"
    /\ LET r == process_post_gw1_solution(df_ids, x_star, y2_star, c_star, expected_points)
       IN  /\ raised' = r.raised
           /\ post_hoc' = IF r.raised = "" THEN r ELSE NoSolution
           /\ pc' = IF r.raised = "" THEN "roles" ELSE "roles_error"
    /\ UNCHANGED <<df_ids, x_star, y2_star, c_star, expected_points>>
    /\ UNCHANGED backtest_vars
    /\ UNCHANGED transfer_vars
    /\ UNCHANGED run_vars

SpecRoles == InitRoles /\ [][ProcessPreGw1Solution \/ ProcessPostGw1Solution]_vars

-----------------------------------------------------------------------------
(* Claims about the role assigner *)

RolesAssigned == pc = "roles"
RolesTried == pc \in {"roles", "roles_error"}

\* Starters of the decision that are not the captain.
NonCaptainStarters == {pid \in Table : x_star[pid] = 1 /\ c_star[pid] = 0}

\* Place of a player in the iteration order.
RowOf(pid) == CHOOSE i \in DOMAIN df_ids : df_ids[i] = pid

\* C19: exactly one vice-captain is marked; it is a starter and not the
\* captain, no other non-captain starter has more expected points, and of the
\* non-captain starters tied at the maximum it is the earliest in iteration order.
C19_ViceCaptain ==
    RolesAssigned =>
        /\ Cardinality(Marked(post_hoc.v)) = 1
        /\ \A vid \in Marked(post_hoc.v) :
            /\ vid \in NonCaptainStarters
            /\ \A q \in NonCaptainStarters :
                /\ expected_points[vid] >= expected_points[q]
                /\ expected_points[q] = expected_points[vid] => RowOf(vid) <= RowOf(q)

\* Roles assigned where several non-captain starters tie at the maximum and
\* the earliest of them in row order is not the one of lowest id.
C19_Witness ==
    /\ RolesAssigned
    /\ \E vid \in Marked(post_hoc.v) : \E q \in NonCaptainStarters :
           /\ q < vid
           /\ expected_points[q] = expected_points[vid]
           /\ RowOf(vid) < RowOf(q)

\* The bench of the decision: squad members that are not starters.
BenchOf == {pid \in Table : y2_star[pid] = 1 /\ x_star[pid] = 0}
BenchGKs == {pid \in BenchOf : Position(pid) = "GK"}

\* C20: the derivation fails whenever the bench has not exactly 4 players or
\* not exactly one GK; when it succeeds slot 1 is the bench GK and slots 2-4
\* are the three other bench players, one each.
C20_BenchDerivation ==
    RolesTried =>
        /\ (Cardinality(BenchOf) # 4 \/ Cardinality(BenchGKs) # 1) =>
               (pc = "roles_error" /\ raised # "" /\ post_hoc = NoSolution)
        /\ RolesAssigned =>
            /\ Marked(post_hoc.b1) = BenchGKs
            /\ Cardinality(Marked(post_hoc.b2)) = 1
            /\ Cardinality(Marked(post_hoc.b3)) = 1
            /\ Cardinality(Marked(post_hoc.b4)) = 1
            /\ Marked(post_hoc.b2) \cup Marked(post_hoc.b3) \cup Marked(post_hoc.b4)
                   = BenchOf \ BenchGKs
            /\ Cardinality(BenchOf \ BenchGKs) = 3

\* A bench of five with a single GK: the derivation has failed.
C20_Witness ==
    /\ pc = "roles_error"
    /\ Cardinality(BenchOf) = 5
    /\ Cardinality(BenchGKs) = 1

-----------------------------------------------------------------------------
(* run_backtest: the loop over the gameweeks of the season *)

\* The base team with the bench goalkeeper transferred out for player 16.
SwapTeam ==
    [BaseTeam EXCEPT !.squad = [BaseTeam.squad EXCEPT ![2] = SquadSize + 1],
                     !.bench = [BaseTeam.bench EXCEPT ![1] = SquadSize + 1]]

\* The decisions the optimiser file may hold for a gameweek: three legal ones,
\* one whose captain is on the bench, one with a squad of 14.
RunTeams ==
    {BaseTeam, SwapTeam, [BaseTeam EXCEPT !.vice = 3],
     [BaseTeam EXCEPT !.captain = 2],
     [BaseTeam EXCEPT !.squad = SubSeq(BaseTeam.squad, 1, SquadSize - 1)]}

\* Players with 0 minutes in a gameweek: none, the captain, every starter.
RunAbsent == {{}, {BaseTeam.captain}, Range(BaseTeam.starters)}

\* The points column of gameweek g.
GwPoints(g) == PointsProfile(((g - 1) % NumProfiles) + 1)

\* A call of the loop, as kept in run_log.
Call(name, g, ok) == [call |-> name, gw |-> g, ok |-> ok]

\* The locals of run_backtest after an iteration.
Run(next_pc, exc, cum, tt, prev, lg) ==
    [pc |-> next_pc, raised |-> exc, cumulative_points |-> cum, total_transfers |-> tt,
     previous_squad |-> prev, run_log |-> lg]

\* A rejected gameweek is reported and the loop goes on.
validation_failed_continue(cum, tt, prev, lg) == Run("running", "", cum, tt, prev, lg)

\* validate_team rejected the gameweek: ValueError, re-raised by the handler.
validation_failed(cum, tt, prev, lg) == Run("run_failed", "ValueError", cum, tt, prev, lg)

\* detect_transfers: transfers_in
transfers_in(current_squad, prev) == Range(current_squad) \ Range(prev)

\* One iteration of the loop for gameweek g, the decision tm and the gameweek's data.
process_gameweek(g, tm, mins, pts, cum, tt, prev, lg) ==
    LET v == validate_team(tm.squad, tm.starters, tm.bench, tm.captain, tm.vice)
        lg1 == Append(lg, Call("validate_team", g, v.valid))
        sc == calculate_gameweek_points(mins, pts, tm.starters, tm.bench, tm.captain, tm.vice)
        lg2 == Append(lg1, Call("calculate_gameweek_points", g, sc.raised = ""))
        tt2 == IF g > 1 /\ prev # <<>>
               THEN tt + Cardinality(transfers_in(tm.squad, prev)) ELSE tt
    IN  IF ~v.valid
        THEN [run |-> validation_failed(cum, tt, prev, lg1), result |-> v, scored |-> FALSE]
        ELSE IF sc.raised # ""
        THEN [run |-> Run("run_failed", sc.raised, cum, tt, prev, lg2),
              result |-> v, scored |-> FALSE]
        ELSE IF "captain_used" \notin DOMAIN sc.details
        THEN [run |-> Run("run_failed", "KeyError", cum + sc.total_points, tt2, prev, lg2),
              result |-> v, scored |-> TRUE]
        ELSE [run |-> Run("running", "", cum + sc.total_points, tt2, tm.squad, lg2),
              result |-> v, scored |-> TRUE]

InitBacktest ==
    /\ pc = "running"
    /\ raised = ""
    /\ BacktestIdle
    /\ TransferIdle
    /\ RolesIdle
    /\ RunIdle

\* The next gameweek is in the optimiser file: it is validated and, if accepted,
\* scored and reported.
ProcessGameweek ==
    /\ pc = "running"
    /\ gw_num < MaxGW
    /\ \E tm \in RunTeams, z \in RunAbsent :
        LET g == gw_num + 1
            mins == [p \in Table |-> IF p \in z THEN 0 ELSE MinutesPlayed]
            sc == calculate_gameweek_points(mins, GwPoints(g), tm.starters, tm.bench,
                                            tm.captain, tm.vice)
            r == process_gameweek(g, tm, mins, GwPoints(g), cumulative_points,
                                  total_transfers, previous_squad, run_log)
        IN  /\ gw_num' = g
            /\ squad_ids' = tm.squad
            /\ starter_ids' = tm.starters
            /\ bench_ids' = tm.bench
            /\ captain_id' = tm.captain
            /\ vice_id' = tm.vice
            /\ minutes' = mins
            /\ points' = GwPoints(g)
            /\ result' = r.result
            /\ total_points' = IF r.scored THEN sc.total_points ELSE total_points
            /\ active_players' = IF r.scored THEN sc.active_players ELSE active_players
            /\ details' = IF r.scored THEN sc.details ELSE details
            /\ pc' = r.run.pc
            /\ raised' = r.run.raised
            /\ cumulative_points' = r.run.cumulative_points
            /\ total_transfers' = r.run.total_transfers
            /\ previous_squad' = r.run.previous_squad
            /\ run_log' = r.run.run_log
    /\ UNCHANGED <<players_df, summary>>
    /\ UNCHANGED transfer_vars
    /\ UNCHANGED role_vars

\* The next gameweek is not in the optimiser file: a warning, then the next one.
SkipGameweek ==
    /\ pc = "running"
    /\ gw_num < MaxGW
    /\ gw_num' = gw_num + 1
    /\ UNCHANGED <<pc, raised, cumulative_points, total_transfers, previous_squad,
                   run_log, summary>>
    /\ UNCHANGED backtest_vars
    /\ UNCHANGED transfer_vars
    /\ UNCHANGED role_vars

\* After the last gameweek the final summary is returned.
FinalSummary ==
    /\ pc = "running"
    /\ gw_num = MaxGW
    /\ summary' = [total_points |-> cumulative_points, total_transfers |-> total_transfers]
    /\ pc' = "run_done"
    /\ UNCHANGED <<raised, gw_num, cumulative_points, total_transfers, previous_squad,
                   run_log>>
    /\ UNCHANGED backtest_vars
    /\ UNCHANGED transfer_vars
    /\ UNCHANGED role_vars

SpecBacktest == InitBacktest /\ [][ProcessGameweek \/ SkipGameweek \/ FinalSummary]_vars

-----------------------------------------------------------------------------
(* Claims on the backtest run *)

RunStarted == pc \in {"running", "run_failed", "run_done"}

Rejections == {i \in 1..Len(run_log) : run_log[i].call = "validate_team" /\ ~run_log[i].ok}

\* C21: run_backtest is fail-fast. The calls of a run are in increasing gameweek
\* order, a gameweek is scored only right after validate_team accepted it, and a
\* rejection at gameweek g is the last call of the run: the run has stopped with
\* an error at g and returns no season summary.
C21_FailFast ==
    RunStarted =>
        /\ \A i \in 1..Len(run_log), j \in 1..Len(run_log) :
               i < j => /\ run_log[i].gw <= run_log[j].gw
                        /\ run_log[i].call = run_log[j].call => run_log[i].gw < run_log[j].gw
        /\ \A i \in 1..Len(run_log) :
               run_log[i].call = "calculate_gameweek_points" =>
                   /\ i > 1
                   /\ run_log[i - 1] = Call("validate_team", run_log[i].gw, TRUE)
        /\ \A i \in Rejections :
               /\ i = Len(run_log)
               /\ pc = "run_failed"
               /\ raised = "ValueError"
               /\ gw_num = run_log[i].gw
               /\ summary = NoSolution

\* A run that scored gameweek 1 and stopped at a rejected gameweek 2, before the last one.
C21_Witness ==
    /\ pc = "run_failed"
    /\ Rejections = {Len(run_log)}
    /\ gw_num = 2
    /\ gw_num < MaxGW
    /\ \E i \in 1..Len(run_log) : run_log[i] = Call("calculate_gameweek_points", 1, TRUE)

-----------------------------------------------------------------------------
(* Claims on the bench loop of calculate_gameweek_points *)

\* The starters in play when the bench loop starts, and the loop on the scored input.
ActiveBefore == active_starters(minutes, starter_ids)
BenchLoop == process_bench(1, ActiveBefore, <<>>, minutes, points, bench_ids)

\* The size of the active set when the loop reaches bench position k.
ActiveAt(k) ==
    Len(ActiveBefore)
    + Cardinality({i \in DOMAIN details.substitutions : details.substitutions[i].bench_pos < k})

BenchLoopRan == Scored /\ SomeStarterPlayed

\* C22: the bench slots are examined in the order 1, 2, 3, 4, each at most once,
\* and only while the active set has fewer than 11 players; the recorded
\* substitutions have strictly increasing bench positions and none of them is a
\* bench player with 0 minutes.
C22_BenchOrder ==
    BenchLoopRan =>
        /\ BenchLoop.examined = [i \in 1..Len(BenchLoop.examined) |-> i]
        /\ Len(BenchLoop.examined) <= BenchSize
        /\ \A k \in Range(BenchLoop.examined) : ActiveAt(k) < XISize
        /\ Len(BenchLoop.examined) < BenchSize => Len(active_players) >= XISize
        /\ \A i, j \in DOMAIN details.substitutions :
               i < j => details.substitutions[i].bench_pos < details.substitutions[j].bench_pos
        /\ \A i \in DOMAIN details.substitutions :
               /\ minutes[details.substitutions[i].player_id] > 0
               /\ bench_ids[details.substitutions[i].bench_pos] = details.substitutions[i].player_id
        /\ \A k \in DOMAIN bench_ids :
               (bench_ids[k] \in Table /\ minutes[bench_ids[k]] = 0) =>
                   bench_ids[k] \notin Range(active_players)

\* Two starters are out, the player of bench slot 2 has 0 minutes, the players of
\* slots 3 and 4 come on, and the loop ended at 11 before a slot was left.
C22_Witness ==
    /\ BenchLoopRan
    /\ Len(ActiveBefore) = XISize - 2
    /\ minutes[bench_ids[2]] = 0
    /\ Len(details.substitutions) = 2
    /\ details.substitutions[1].bench_pos = 3
    /\ details.substitutions[2].bench_pos = 4

\* All eleven starters played although bench players also played: no slot is examined.
C22_WitnessFull ==
    /\ BenchLoopRan
    /\ Len(ActiveBefore) = XISize
    /\ \E k \in DOMAIN bench_ids : minutes[bench_ids[k]] > 0
    /\ BenchLoop.examined = <<>>

\* The substitutions recorded before the loop reached bench position k, and the
\* active set at that point.
RecordedBefore(k) == SelectSeq(details.substitutions, LAMBDA sub : sub.bench_pos < k)
ActiveSetAt(k) ==
    ActiveBefore \o [i \in DOMAIN RecordedBefore(k) |-> RecordedBefore(k)[i].player_id]
RecordedSlots == {details.substitutions[i].bench_pos : i \in DOMAIN details.substitutions}

\* C23: the player of a bench slot is committed exactly when the loop examined
\* the slot, the player has minutes and the active set of that moment plus the
\* player passes validate_formation; a slot that is not committed leaves no
\* record and is not taken up again; the committed players are appended to the
\* active set and recorded as (slot, player id, points) in commit order.
C23_CommitOnlyLegal ==
    BenchLoopRan =>
        /\ \A k \in 1..BenchSize :
               k \in RecordedSlots <=>
                   /\ k \in Range(BenchLoop.examined)
                   /\ minutes[bench_ids[k]] > 0
                   /\ validate_formation(
                          PositionColumn(Append(ActiveSetAt(k), bench_ids[k]))).valid
        /\ \A i \in DOMAIN details.substitutions :
               LET sub == details.substitutions[i]
               IN  /\ sub.player_id = bench_ids[sub.bench_pos]
                   /\ sub.points = points[sub.player_id]
                   /\ \A j \in DOMAIN details.substitutions :
                          i < j => sub.bench_pos < details.substitutions[j].bench_pos
        /\ active_players = ActiveSetAt(BenchSize + 1)
        /\ Len(active_players) = Len(ActiveBefore) + Len(details.substitutions)

\* Slot 2 was refused for its formation, slot 4 was committed afterwards, and
\* with that player in the active set the player of slot 2 would now be legal.
C23_Witness ==
    /\ BenchLoopRan
    /\ RecordedSlots = {4}
    /\ minutes[bench_ids[2]] > 0
    /\ ~validate_formation(PositionColumn(Append(ActiveSetAt(2), bench_ids[2]))).valid
    /\ validate_formation(PositionColumn(Append(active_players, bench_ids[2]))).valid
    /\ Len(active_players) < XISize

-----------------------------------------------------------------------------
(* Claims on the bench order and on the roles as a whole *)

\* The player marked for a bench slot.
SlotPlayer(b) == CHOOSE pid \in Marked(b) : TRUE
OutfieldSlots == <<SlotPlayer(post_hoc.b2), SlotPlayer(post_hoc.b3), SlotPlayer(post_hoc.b4)>>

\* C24: bench slots 2, 3, 4 are in non-increasing order of expected points, and
\* bench players with equal expected points are in the order of the input bench
\* list (the iteration order of the decision).
C24_BenchSortStable ==
    RolesAssigned =>
        \A i, j \in 1..3 :
            i < j =>
                /\ expected_points[OutfieldSlots[i]] >= expected_points[OutfieldSlots[j]]
                /\ expected_points[OutfieldSlots[i]] = expected_points[OutfieldSlots[j]]
                       => RowOf(OutfieldSlots[i]) < RowOf(OutfieldSlots[j])

\* Two bench players tie, a third has more points and comes later in the input
\* list than one of them.
C24_Witness ==
    /\ RolesAssigned
    /\ \E i, j \in 1..3 :
           /\ i < j
           /\ expected_points[OutfieldSlots[i]] = expected_points[OutfieldSlots[j]]
    /\ \E i, j \in 1..3 :
           /\ i < j
           /\ expected_points[OutfieldSlots[i]] > expected_points[OutfieldSlots[j]]
           /\ RowOf(OutfieldSlots[i]) > RowOf(OutfieldSlots[j])

-----------------------------------------------------------------------------
(* Claims on the season runner *)

\* The transfer state the runner holds.
RunnerState == <<y0, p0, B_bank, free_transfers>>
StateOf(r) == <<r.y0, r.p0, r.B_bank, r.f>>

\* The solution the chain returns for the state st and the decision (t, s).
Solve(ch, st, costv, t, s) ==
    IF ch = "MILP" THEN optimize_post_gw1_step1(st[1], st[2], st[4], st[3], costv, t, s)
    ELSE optimize_post_gw1_step1_minizinc(st[1], st[2], st[4], st[3], costv, t, s)

ChainStep ==
    /\ pc = "season_stopped" => UNCHANGED <<pc, transfer_vars>>
    /\ gw' # gw => (gw' = gw + 1 /\ pc = "season" /\ pc' = "season" /\ raised' = "")
    /\ gw' = gw => UNCHANGED <<y0, p0, B_bank, free_transfers, results>>
    /\ (gw' = gw + 1 /\ gw >= 1) =>
           /\ results' = ((gw + 1) :> solution') @@ results
           /\ solution' = Solve(chain, StateOf(results[gw]), cost', t_star', s_star')
    /\ DOMAIN results' = 1..gw'
    /\ gw' >= 1 => RunnerState' = StateOf(results'[gw'])

\* C25: the season runner advances the transfer state in a strict chain. The
\* state a gameweek g >= 2 is solved from is the state stored for g-1, the
\* state changes only with a solved gameweek, after a failing gameweek nothing
\* is processed, and the stored results are gw1..gwk without a gap.
C25_SequentialChain == [][ChainStep]_vars

\* The run stopped at gameweek 3 after two solved gameweeks, the second with a transfer.
C25_Witness ==
    /\ pc = "season_stopped"
    /\ gw = 2
    /\ gw < MaxGW
    /\ DOMAIN results = {1, 2}
    /\ results[2].y0 # results[1].y0
    /\ RunnerState = StateOf(results[2])

-----------------------------------------------------------------------------
(* validate_formation against rule 5 of validate_team, alone and in the bench loop *)

\* Formation checks on frames of positions, and gameweeks validated and scored.
InitLineup == InitFormation \/ InitScore

SpecLineup ==
    InitLineup /\ [][ValidateFormation \/ ValidateTeam \/ CalculateGameweekPoints]_vars

FullBounds(col) ==
    /\ Rows(col, "GK") = 1
    /\ Rows(col, "DEF") \in 3..5
    /\ Rows(col, "MID") \in 2..5
    /\ Rows(col, "FWD") \in 1..3

\* The rule a verdict names, whichever of the two checks gave it.
RuleOf(r) ==
    CASE r.valid -> ""
      [] r.kind \in {"formation_gk", "xi_gk"} -> "GK"
      [] r.kind \in {"formation_def", "xi_def"} -> "DEF"
      [] r.kind \in {"formation_mid", "xi_mid"} -> "MID"
      [] r.kind \in {"formation_fwd", "xi_fwd"} -> "FWD"
      [] OTHER -> r.kind

\* Rule 5 of validate_team applied to the position counts of a frame.
UngatedVerdict(col) ==
    xi_formation_rule(Rows(col, "GK"), Rows(col, "DEF"), Rows(col, "MID"), Rows(col, "FWD"))

\* C26: validate_formation accepts a frame exactly when GK = 1, DEF in 3..5,
\* MID in 2..5 and FWD in 1..3; its verdict, failing rule and found count are
\* those of rule 5 of validate_team; no frame of fewer than 7 rows is accepted;
\* and after every substitution the bench loop commits, the active set is
\* within all four bounds.
C26_FormationIsFullCheck ==
    /\ FormationChecked =>
           /\ result.valid <=> FullBounds(players_df)
           /\ result.valid <=> UngatedVerdict(players_df).valid
           /\ RuleOf(result) = RuleOf(UngatedVerdict(players_df))
           /\ result.args = UngatedVerdict(players_df).args
           /\ result.valid => Len(players_df) >= 7
    /\ BenchLoopRan =>
           \A i \in DOMAIN details.substitutions :
               FullBounds(PositionColumn(
                   ActiveSetAt(details.substitutions[i].bench_pos + 1)))

\* A frame of six rows, past both size gates, refused for its forwards.
C26_Witness ==
    /\ FormationChecked
    /\ Len(players_df) = 6
    /\ ~result.valid
    /\ result.kind = "formation_fwd"
    /\ UngatedVerdict(players_df) = Fail("xi_fwd", <<0>>)

-----------------------------------------------------------------------------
(* The active set of a team that validate_team accepted *)

NoPlayerTwice(s) == \A i, j \in DOMAIN s : i # j => s[i] # s[j]
AbsentStarters == {p \in Known(starter_ids) : minutes[p] = 0}

\* C27: for a team accepted by validate_team and scored, the final active set
\* has at most 11 players, no player twice, only starters and bench players
\* with minutes > 0, at most one GK, and no more substitutions than starters
\* with 0 minutes.
C27_ActiveSetSound ==
    Scored =>
        /\ Len(active_players) <= XISize
        /\ NoPlayerTwice(active_players)
        /\ \A p \in Range(active_players) :
               /\ p \in Range(starter_ids) \cup Range(bench_ids)
               /\ minutes[p] > 0
        /\ Cardinality({i \in DOMAIN active_players : Position(active_players[i]) = "GK"}) <= 1
        /\ Len(details.substitutions) <= Cardinality(AbsentStarters)

-----------------------------------------------------------------------------
(* The roles of a decision, read back by the backtester and validated *)

\* extract_player_ids on a 0/1 dict with the key order ids
extract_player_ids(ids, binary_dict) == SelectSeq(ids, LAMBDA pid : binary_dict[pid] = 1)

\* The team run_backtest reads from the stored decision and its roles.
StoredTeam ==
    [squad    |-> extract_player_ids(df_ids, y2_star),
     starters |-> extract_player_ids(df_ids, x_star),
     bench    |-> (1 :> extract_player_ids(df_ids, post_hoc.b1)[1])
                  @@ (2 :> extract_player_ids(df_ids, post_hoc.b2)[1])
                  @@ (3 :> extract_player_ids(df_ids, post_hoc.b3)[1])
                  @@ (4 :> extract_player_ids(df_ids, post_hoc.b4)[1]),
     captain  |-> extract_player_ids(df_ids, c_star)[1],
     vice     |-> extract_player_ids(df_ids, post_hoc.v)[1]]

\* A squad of (2,5,5,3) with at most 3 per club, a legal starting XI inside it,
\* and a captain in the XI.
LegalDecision ==
    /\ \A pos \in Positions : PositionCount(Marked(y2_star), pos) = expected[pos]
    /\ \A club \in Teams(Marked(y2_star)) : TeamCount(Marked(y2_star), club) <= ClubLimit
    /\ Marked(x_star) \subseteq Marked(y2_star)
    /\ Cardinality(Marked(x_star)) = XISize
    /\ FullBounds(PositionColumn(TableOrder(Marked(x_star))))
    /\ Marked(c_star) \subseteq Marked(x_star)
    /\ Cardinality(Marked(c_star)) = 1

\* C28: for a legal decision the role derivation succeeds, and the squad,
\* starters, captain, vice-captain and bench slots it yields are accepted by
\* validate_team.
C28_RolesPassValidation ==
    (RolesTried /\ LegalDecision) =>
        /\ RolesAssigned
        /\ validate_team(StoredTeam.squad, StoredTeam.starters, StoredTeam.bench,
                         StoredTeam.captain, StoredTeam.vice).valid

\* A legal decision with three defenders in the XI and two on the bench, rows in
\* descending order, roles assigned.
C28_Witness ==
    /\ RolesAssigned
    /\ LegalDecision
    /\ PositionCount(Marked(x_star), "DEF") = 3
    /\ df_ids[1] > df_ids[2]
    /\ Cardinality({k \in 2..4 : Position(StoredTeam.bench[k]) = "DEF"}) = 2

\* C29: in the MILP chain the bank starts at 1000 minus the cost of a squad
\* costing at most 1000, and after every advance whose decision satisfies the
\* budget constraint it is not negative.
C29_MilpBankNonNegative == (chain = "MILP" /\ gw >= 1) => B_bank >= 0

\* After a transfer that the bank and the proceeds just cover, the MILP bank is 0.
C29_Witness ==
    /\ chain = "MILP"
    /\ gw >= 2
    /\ t_star # {}
    /\ B_bank = 0
    /\ SumOver(cost, t_star) > SumOver(selling_prices(results[gw - 1].p0, cost), s_star)

\* The state the last solved gameweek started from.
StateBefore == results[gw - 1]
OwnedBefore == Marked(StateBefore.y0)

\* C30: in the CP chain the selling price of every owned player handed to the
\* solver as 'sp' is the selling price parse_post_gw1_output credits for it in
\* that gameweek, and the bank after a decision within the solver's budget is
\* not negative.
C30_CpSolverPriceIsCreditedPrice ==
    (chain = "CP" /\ gw >= 2) =>
        /\ \A pid \in OwnedBefore :
               sp_parameter(StateBefore.p0)[pid]
                   = calculate_selling_prices(StateBefore.p0, cost)[pid]
        /\ mzn_feasible(StateBefore.y0, StateBefore.p0, StateBefore.B_bank, cost,
                        t_star, s_star) => B_bank >= 0

====
